---------------------------- MODULE Spec2Model ----------------------------
(***************************************************************************)
(* Model of bib_sorter.py: reordering of a LaTeX thebibliography block by  *)
(* the order in which \cite markers first appear.                          *)
(*                                                                         *)
(* A document is a sequence of symbols.  The fixed literals the regular    *)
(* expressions of the program look for (\cite, \bibitem,                   *)
(* \begin{thebibliography}, \end{thebibliography}) are one symbol each,    *)
(* carrying their width in characters; every other symbol is one           *)
(* character.  Character positions (match.start()) are sums of widths.     *)
(* A citation position is kept in thousandths of a character, the unit of  *)
(* the offset `i * 0.001' the program adds inside a multi-key marker.      *)
(* The documents of Init never put one of the literals between the braces  *)
(* of a key, so a class such as [^}] never has to stop inside a literal.   *)
(***************************************************************************)
EXTENDS Integers, Sequences, FiniteSets, Bags, TLC

CITE    == "\\cite"
BIBITEM == "\\bibitem"
BEGIN   == "\\begin{thebibliography}"
END     == "\\end{thebibliography}"
NL      == "\n"
SP      == " "

\* Number of characters of one symbol.
Width(sym) ==
    CASE sym = CITE    -> 5
      [] sym = BIBITEM -> 8
      [] sym = BEGIN   -> 23
      [] sym = END     -> 21
      [] OTHER         -> 1

RECURSIVE CharLen(_)
\* len(text) in characters (the sum of the widths, taken by halves).
CharLen(s) ==
    IF s = <<>> THEN 0
    ELSE IF Len(s) = 1 THEN Width(s[1])
    ELSE LET h == Len(s) \div 2
         IN  CharLen(SubSeq(s, 1, h)) + CharLen(SubSeq(s, h + 1, Len(s)))

\* Character offset (0-based) at which symbol number i of s starts.
CharPos(s, i) == CharLen(SubSeq(s, 1, i - 1))

Min(S) == CHOOSE x \in S : \A y \in S : x <= y
Max(S) == CHOOSE x \in S : \A y \in S : x >= y

\* Index of the first occurrence of sym in s at or after index from; 0 if none.
FirstSym(s, from, sym) ==
    LET I == {k \in from..Len(s) : s[k] = sym}
    IN  IF I = {} THEN 0 ELSE Min(I)

\* The regular expression class \s, on the symbols of the model.
IsSpace(sym) == sym \in {SP, NL}

RECURSIVE LStrip(_)
LStrip(s) == IF s # <<>> /\ IsSpace(Head(s)) THEN LStrip(Tail(s)) ELSE s

RECURSIVE RStrip(_)
RStrip(s) ==
    IF s # <<>> /\ IsSpace(s[Len(s)]) THEN RStrip(SubSeq(s, 1, Len(s) - 1)) ELSE s

\* str.strip()
Strip(s) == RStrip(LStrip(s))

\* str.split(sep): the pieces between the occurrences of sep.
Split(s, sep) ==
    LET at == SelectSeq([i \in 1..Len(s) |-> i], LAMBDA i : s[i] = sep)
        n  == Len(at)
    IN  [j \in 1..(n + 1) |->
            SubSeq(s, IF j = 1 THEN 1 ELSE at[j - 1] + 1,
                      IF j = n + 1 THEN Len(s) ELSE at[j] - 1)]

RECURSIVE Join(_, _)
\* sep.join(parts), put together by halves.
Join(parts, sep) ==
    IF parts = <<>> THEN <<>>
    ELSE IF Len(parts) = 1 THEN parts[1]
    ELSE LET h == Len(parts) \div 2
         IN  Join(SubSeq(parts, 1, h), sep) \o sep \o Join(SubSeq(parts, h + 1, Len(parts)), sep)

(***************************************************************************)
(* The citation pattern  \\cite(?:\[[^\]]*\])?\{([^}]+)\}                   *)
(***************************************************************************)
NoMatch == [start |-> 0, end |-> 0, group |-> <<>>]

\* The match of the pattern starting exactly at index i, or NoMatch.
\* start, end: first and last symbol of the match; group: group(1).
CiteMatchAt(s, i) ==
    IF ~(i <= Len(s) /\ s[i] = CITE) THEN NoMatch
    ELSE
      LET close == IF i + 1 <= Len(s) /\ s[i + 1] = "[" THEN FirstSym(s, i + 2, "]") ELSE 0
          \* index where \{ must be
          brace == IF i + 1 <= Len(s) /\ s[i + 1] = "[" THEN (IF close = 0 THEN 0 ELSE close + 1)
                   ELSE i + 1
          e     == IF brace = 0 THEN 0 ELSE FirstSym(s, brace + 1, "}")
      IN  IF brace # 0 /\ brace <= Len(s) /\ s[brace] = "{" /\ e > brace + 1
          THEN [start |-> i, end |-> e, group |-> SubSeq(s, brace + 1, e - 1)]
          ELSE NoMatch

\* re.finditer: the leftmost match starting at or after index from.
NextCiteMatch(s, from) ==
    LET I == {i \in from..Len(s) : CiteMatchAt(s, i) # NoMatch}
    IN  IF I = {} THEN NoMatch ELSE CiteMatchAt(s, Min(I))


(***************************************************************************)
(* CitationTracker                                                         *)
(***************************************************************************)
\* Units of a citation position per character: the offset of key number i
\* of a multi-key marker is i * 0.001 characters.  Positions are exact
\* multiples of a thousandth here; the rounding of the program's floats is
\* not modelled.
OffsetDenominator == 1000

\* CitationTracker.__init__: citations is the OrderedDict key -> first
\* position (a sequence of records in insertion order), citation_positions
\* the list of every (position, key) seen.
NewTracker == [citations |-> <<>>, citation_positions |-> <<>>]

DictKeys(d) == [i \in 1..Len(d) |-> d[i].key]
HasKey(d, k) == \E i \in 1..Len(d) : d[i].key = k
Lookup(d, k) == d[CHOOSE i \in 1..Len(d) : d[i].key = k].val

\* d[k] = v on an insertion-ordered dict: a new key is appended, an existing
\* key keeps its place and takes the new value.
DictSet(d, k, v) ==
    IF HasKey(d, k)
    THEN [i \in 1..Len(d) |-> IF d[i].key = k THEN [key |-> k, val |-> v] ELSE d[i]]
    ELSE Append(d, [key |-> k, val |-> v])

\* add_citation without the test of line 21: the last position seen is kept.
AddCitationLastWins(tr, position, citation_key) ==
    LET k == Strip(citation_key)
    IN  [citations |-> DictSet(tr.citations, k, position),
         citation_positions |-> Append(tr.citation_positions, <<position, k>>)]

\* CitationTracker.add_citation
AddCitation(tr, position, citation_key) ==
    LET k == Strip(citation_key)
    IN  [citations |-> IF HasKey(tr.citations, k) THEN tr.citations
                       ELSE DictSet(tr.citations, k, position),
         citation_positions |-> Append(tr.citation_positions, <<position, k>>)]

\* Line 63 without the offset: every key of a marker at the marker's position.
CitationPositionNoOffset(position, i) == position * OffsetDenominator

\* Line 63: the position given to key number i (from 0) of a marker that
\* starts at character position: position + i * 0.001, in thousandths.  The
\* single key of line 65 is given position itself.
CitationPosition(position, i) == position * OffsetDenominator + i

\* Lines 56-60, 65: the keys one match adds, in order.
CiteKeys(m) ==
    IF \E j \in 1..Len(m.group) : m.group[j] = ","
    THEN LET parts == Split(m.group, ",")
         IN  [j \in 1..Len(parts) |-> Strip(parts[j])]
    ELSE <<Strip(m.group)>>

\* Insertion of item x behind every item whose value is not greater: one
\* step of the stable sort of sorted(..., key=lambda x: x[1]).
InsertSorted(sorted, x) ==
    LET before == SelectSeq(sorted, LAMBDA y : y.val <= x.val)
        after  == SelectSeq(sorted, LAMBDA y : y.val > x.val)
    IN  before \o <<x>> \o after

RECURSIVE SortByVal(_)
SortByVal(items) ==
    IF items = <<>> THEN <<>>
    ELSE InsertSorted(SortByVal(SubSeq(items, 1, Len(items) - 1)), items[Len(items)])

\* CitationTracker.get_ordered_citations
GetOrderedCitations(tr) == DictKeys(SortByVal(tr.citations))

(***************************************************************************)
(* extract_bibliography_entries                                            *)
(***************************************************************************)
\* Lookahead (?=\\bibitem\{|\\end\{thebibliography\}) at index j.
EntryEndsAt(sec, j) ==
    \/ sec[j] = END
    \/ sec[j] = BIBITEM /\ j + 1 <= Len(sec) /\ sec[j + 1] = "{"

\* The match of \\bibitem\{([^}]+)\}(.*?)(?=...) starting exactly at index i
\* (re.DOTALL), or NoMatch.  end is the last symbol of group(2).
BibitemMatchAt(sec, i) ==
    IF ~(i + 1 <= Len(sec) /\ sec[i] = BIBITEM /\ sec[i + 1] = "{") THEN NoMatch
    ELSE
      LET e == FirstSym(sec, i + 2, "}")
          J == IF e = 0 THEN {} ELSE {j \in (e + 1)..Len(sec) : EntryEndsAt(sec, j)}
      IN  IF e > i + 2 /\ J # {}
          THEN [start |-> i, end |-> Min(J) - 1,
                group |-> <<SubSeq(sec, i + 2, e - 1), SubSeq(sec, e + 1, Min(J) - 1)>>]
          ELSE NoMatch

RECURSIVE BibitemMatches(_, _)
\* re.finditer(bibitem_pattern, bib_section): every match, left to right,
\* each search resuming where the previous match ended.
BibitemMatches(sec, from) ==
    LET I == {i \in from..Len(sec) : BibitemMatchAt(sec, i) # NoMatch}
    IN  IF I = {} THEN <<>>
        ELSE LET m == BibitemMatchAt(sec, Min(I))
             IN  <<m>> \o BibitemMatches(sec, m.end + 1)

RECURSIVE CollapseBlank(_)
\* re.sub(r'\n\s*\n+', '\n', content): at a newline, \s* is greedy and backs
\* off to the last newline of the whitespace run that follows; the match runs
\* from the first newline to that last one and is replaced by one newline.
CollapseBlank(c) ==
    IF c = <<>> THEN <<>>
    ELSE IF Head(c) # NL THEN <<Head(c)>> \o CollapseBlank(Tail(c))
    ELSE LET run  == {w \in 2..Len(c) : \A k \in 2..w : IsSpace(c[k])}
             nls  == {w \in run : c[w] = NL}
         IN  IF nls = {} THEN <<NL>> \o CollapseBlank(Tail(c))
             ELSE <<NL>> \o CollapseBlank(SubSeq(c, Max(nls) + 1, Len(c)))

\* Lines 96-100: the stored text of one entry.
CleanContent(raw) == Strip(CollapseBlank(Strip(raw)))

RECURSIVE BuildEntries(_, _)
\* The loop of lines 94-102 over the matches: entries[cite_key] = content.
BuildEntries(entries, matches) ==
    IF matches = <<>> THEN entries
    ELSE BuildEntries(DictSet(entries, Strip(matches[1].group[1]),
                              CleanContent(matches[1].group[2])),
                      Tail(matches))

\* The end-marker searched from the back: the last occurrence.
BibEndMatchLast(s) ==
    LET I == {k \in 1..Len(s) : s[k] = END}
    IN  IF I = {} THEN 0 ELSE Max(I)

\* bib_start_match / bib_end_match: re.search finds the first occurrence in
\* the whole document (0: none).
BibStartMatch(s) == FirstSym(s, 1, BEGIN)

BibEndMatch(s) == FirstSym(s, 1, END)

\* tex_content[bib_start:bib_end]; bib_end is the end of the end-marker.  A
\* slice whose start lies behind its end is empty.
BibSection(s) == SubSeq(s, BibStartMatch(s), BibEndMatch(s))

\* Lines 87-88: \\begin\{thebibliography\}[^\n]* searched in bib_section.
OpeningLine(sec) ==
    LET b == FirstSym(sec, 1, BEGIN)
        n == FirstSym(sec, b + 1, NL)
    IN  IF b = 0 THEN <<BEGIN>>
        ELSE SubSeq(sec, b, IF n = 0 THEN Len(sec) ELSE n - 1)

\* None, for a value that is otherwise a non-empty text.
None == <<>>

\* extract_bibliography_entries: (entries, (bib_start, bib_end), opening_line);
\* found is FALSE for the result (None, None, None).
\* bib_start is the index of the first symbol of the block, bib_end the
\* index of its last symbol.
ExtractBibliographyEntries(s) ==
    IF BibStartMatch(s) = 0 \/ BibEndMatch(s) = 0
    THEN [found |-> FALSE, entries |-> <<>>, bounds |-> <<0, 0>>, opening_line |-> None]
    ELSE [found |-> TRUE, entries |-> BuildEntries(<<>>, BibitemMatches(BibSection(s), 1)),
          bounds |-> <<BibStartMatch(s), BibEndMatch(s)>>,
          opening_line |-> OpeningLine(BibSection(s))]

(***************************************************************************)
(* create_reordered_bibliography                                           *)
(***************************************************************************)
\* f"\\bibitem{{{cite_key}}}\n{entry_content}"
FullEntry(cite_key, entry_content) ==
    <<BIBITEM, "{">> \o cite_key \o <<"}", NL>> \o entry_content

RECURSIVE CitedPass(_, _, _)
\* Lines 117-125: the entries of the cited keys, in citation order; a cited
\* key without an entry is skipped.  The result is the list of keys appended.
CitedPass(citation_order, bib_entries, acc) ==
    IF citation_order = <<>> THEN acc
    ELSE IF HasKey(bib_entries, Head(citation_order))
         THEN CitedPass(Tail(citation_order), bib_entries, Append(acc, Head(citation_order)))
         ELSE CitedPass(Tail(citation_order), bib_entries, acc)

\* Line 128 without its filter: every key of bib_entries.
UnusedEntriesUnfiltered(bib_entries, used_citations) == DictKeys(bib_entries)

\* Line 128: the keys of bib_entries not in used_citations, in dict order.
UnusedEntries(bib_entries, used_citations) ==
    SelectSeq(DictKeys(bib_entries), LAMBDA k : k \notin used_citations)

\* Lines 112-135: the keys of reordered_entries, in order.
ReorderedKeys(citation_order, bib_entries) ==
    LET cited == CitedPass(citation_order, bib_entries, <<>>)
        used  == {cited[i] : i \in 1..Len(cited)}
    IN  cited \o UnusedEntries(bib_entries, used)

\* Lines 137-142: the text of the new block.
BibContent(keys, bib_entries, opening_line) ==
    opening_line \o <<NL, NL>>
      \o Join([i \in 1..Len(keys) |-> FullEntry(keys[i], Lookup(bib_entries, keys[i]))],
              <<NL, NL>>)
      \o <<NL, END>>

\* create_reordered_bibliography without the test of lines 109-110.
CreateReorderedBibliographyUnguarded(citation_order, bib_entries, opening_line) ==
    BibContent(ReorderedKeys(citation_order, bib_entries), bib_entries, opening_line)

\* create_reordered_bibliography
CreateReorderedBibliography(citation_order, bib_entries, opening_line) ==
    IF bib_entries = <<>> THEN None
    ELSE BibContent(ReorderedKeys(citation_order, bib_entries), bib_entries, opening_line)

\* Line 201: content[:bib_start] + new_bib_section + content[bib_end:]
Splice(content, bounds, new_bib_section) ==
    SubSeq(content, 1, bounds[1] - 1) \o new_bib_section
      \o SubSeq(content, bounds[2] + 1, Len(content))


(***************************************************************************)
(* Input documents                                                         *)
(***************************************************************************)
MaxCites   == 2   \* citation markers in the text before the bibliography
MaxEntries == 2   \* \bibitem entries in the bibliography block

Keys == {<<"a">>, <<"b">>, <<"c">>}

CiteOne(k)     == <<CITE, "{">> \o k \o <<"}">>
CiteOpt(k)     == <<CITE, "[", "p", "]", "{">> \o k \o <<"}">>
CiteGroup(ks, sep) == <<CITE, "{">> \o Join(ks, sep) \o <<"}">>

\* \cite{k}, \cite[p]{k}, \cite{ k } and multi-key markers, with and without
\* blanks around the keys, with a key repeated inside one marker.
Markers ==
    {CiteOne(k) : k \in Keys}
      \cup {CiteOpt(<<"b">>), CiteOne(<<SP, "c", SP>>)}
      \cup {CiteGroup(<<<<"a">>, <<"b">>>>, <<",">>),
            CiteGroup(<<<<"b">>, <<"a">>>>, <<",", SP>>),
            CiteGroup(<<<<"c">>, <<"a">>, <<"c">>, <<"b">>>>, <<",">>)}

SimpleMarkers == {CiteOne(k) : k \in Keys}

RECURSIVE SeqsUpTo(_, _)
\* The sequences of at most n elements of S.
SeqsUpTo(S, n) ==
    IF n = 0 THEN {<<>>}
    ELSE LET shorter == SeqsUpTo(S, n - 1)
         IN  shorter \cup {Append(q, x) : q \in shorter, x \in S}

RECURSIVE Flatten(_)
Flatten(parts) == IF parts = <<>> THEN <<>> ELSE Head(parts) \o Flatten(Tail(parts))

\* Text with the markers ms, each followed by a word.
Prose(ms) == Flatten([i \in 1..Len(ms) |-> ms[i] \o <<SP, "x", SP>>])

Bibitem(k, body) == <<BIBITEM, "{">> \o k \o <<"}">> \o body

\* Entries as they stand in the source file: one-line bodies, bodies with one
\* blank line and with several (some holding blanks), bodies that cite
\* another entry, a key written with a blank.
EntryKinds ==
    { Bibitem(<<"a">>, <<SP, "X", NL>>),
      Bibitem(<<"a">>, <<NL, "X", NL, NL, "Y", NL, NL>>),
      Bibitem(<<"a">>, <<SP>> \o CiteOne(<<"b">>) \o <<NL>>),
      Bibitem(<<"b">>, <<SP, "Y", NL>>),
      Bibitem(<<"b">>, <<NL, "X", NL, SP, NL, NL, SP, "Y", NL>>),
      Bibitem(<<"b">>, <<SP>> \o CiteOne(<<"a">>) \o <<NL>>),
      Bibitem(<<"c">>, <<SP, "X", NL>>),
      Bibitem(<<SP, "c">>, <<NL, "Z", NL>>) }

SimpleEntryKinds ==
    {Bibitem(k, <<NL, "X", SP, "Y", NL>>) : k \in Keys} \cup {Bibitem(<<"a">>, <<SP, "Z", NL>>)}

\* \begin{thebibliography}{9}, a line break, the text pre, the entries, the
\* end-marker.
Block(pre, es) ==
    <<BEGIN, "{", "9", "}", NL>> \o pre \o Flatten(es) \o <<END>>

\* Documents that vary the citation markers over two fixed blocks.
ScanDocs ==
    {Prose(ms) \o Block(<<>>, es) \o <<NL>> :
        ms \in SeqsUpTo(Markers, MaxCites),
        es \in {<<Bibitem(<<"b">>, <<SP, "X", NL>>), Bibitem(<<"a">>, <<SP, "Y", NL>>),
                  Bibitem(<<"d">>, <<SP, "W", NL>>)>>,
                <<Bibitem(<<"c">>, <<SP, "X", NL>>), Bibitem(<<"a">>, <<SP, "Y", NL>>),
                  Bibitem(<<"b">>, <<SP, "Z", NL>>)>>}}

\* Documents that vary the bibliography block, with text between the opening
\* line and the first entry, with a citation behind the block.
BibDocs ==
    {pro \o Block(<<"%", NL>>, es) \o post :
        pro \in {<<>>, Prose(<<CiteOne(<<"b">>), CiteOne(<<"a">>)>>), Prose(<<CiteOne(<<"c">>)>>)},
        es \in SeqsUpTo(EntryKinds, MaxEntries),
        post \in {<<NL>>, <<NL>> \o CiteOne(<<"c">>) \o <<NL>>}}

\* Documents that vary both, over plain entries.
MixedDocs ==
    {Prose(ms) \o Block(<<>>, es) \o <<NL>> :
        ms \in SeqsUpTo(SimpleMarkers, MaxCites),
        es \in SeqsUpTo(SimpleEntryKinds, MaxEntries)}

\* Keys in the marker of LongGroupDoc.
LongGroup == 1001

\* A marker of LongGroup keys, the first and the last different from the
\* rest, with the next marker right behind it: the offset of the last key
\* reaches a whole character.
LongGroupDoc ==
    CiteGroup([i \in 1..LongGroup |-> IF i = 1 THEN <<"b">>
                                      ELSE IF i = LongGroup THEN <<"c">> ELSE <<"a">>], <<",">>)
      \o CiteOne(<<"d">>) \o <<NL>>
      \o Block(<<>>, <<Bibitem(<<"d">>, <<SP, "X", NL>>), Bibitem(<<"c">>, <<SP, "Y", NL>>)>>)

\* Documents without one of the delimiters, with the end-marker first, with
\* two blocks, with an empty key, without any citation, with the first entry
\* on the line of the begin-marker.
OddDocs ==
    LET e == Bibitem(<<"a">>, <<SP, "X", NL>>)
        f == Bibitem(<<"b">>, <<SP, "Y", NL>>)
        c == CiteOne(<<"b">>) \o <<SP>> \o CiteOne(<<"a">>) \o <<NL>>
    IN  { <<"x", NL>>,
          Block(<<>>, <<e>>),
          c,
          c \o <<BEGIN, "{", "9", "}", NL>> \o e,
          c \o e \o <<END>>,
          c \o <<END, NL>> \o Block(<<>>, <<e, f>>),
          c \o Block(<<>>, <<e, f>>) \o <<NL, "y">> \o Block(<<>>, <<f>>),
          c \o Block(<<>>, <<e, <<BIBITEM, "{", "}", SP, "W", NL>>, f>>),
          <<CITE, "{", "}">> \o Block(<<>>, <<e>>),
          c \o <<BEGIN, "{", "9", "}", SP>> \o e \o f \o <<END, NL>> }

Docs == ScanDocs \cup BibDocs \cup MixedDocs \cup OddDocs \cup {LongGroupDoc}

(***************************************************************************)
(* reorder_latex_bibliography and main, statement by statement             *)
(***************************************************************************)
VARIABLES
    input_file,       \* the input path: [readable, text]
    output_file,      \* the output path: [exists, text]
    pc,               \* position in reorder_latex_bibliography / main
    content,          \* the text read
    citation_tracker, \* the CitationTracker of find_all_citations
    scan_from,        \* where re.finditer resumes
    position,         \* match.start() of the marker at hand, in characters
    cite_keys,        \* the keys of the marker at hand
    key_index,        \* how many of them have been added
    citation_order,
    bib_entries,
    bib_bounds,
    opening_line,
    new_bib_section,
    new_content,
    write_opened,     \* open(output_file, 'w') was executed in this run
    success,          \* the value reorder_latex_bibliography returned
    exit_status,      \* the status of the process: -1 while it runs
    run,              \* 1: first invocation; 2: invocation on the first output
    first_section     \* new_bib_section of the first invocation

vars == <<input_file, output_file, pc, content, citation_tracker, scan_from,
          position, cite_keys, key_index,
          citation_order, bib_entries, bib_bounds, opening_line, new_bib_section,
          new_content, write_opened, success, exit_status, run, first_section>>

NoFile == [exists |-> FALSE, text |-> <<>>]

\* The locals of a fresh invocation.
Fresh ==
    /\ pc = "read"
    /\ content = <<>>
    /\ citation_tracker = NewTracker
    /\ scan_from = 1
    /\ position = 0
    /\ cite_keys = <<>>
    /\ key_index = 0
    /\ citation_order = <<>>
    /\ bib_entries = <<>>
    /\ bib_bounds = <<0, 0>>
    /\ opening_line = None
    /\ new_bib_section = None
    /\ new_content = <<>>
    /\ write_opened = FALSE
    /\ success = FALSE
    /\ exit_status = -1

Init ==
    /\ input_file \in [readable : {TRUE}, text : Docs]
                        \cup {[readable |-> FALSE, text |-> <<>>]}
    /\ output_file = NoFile
    /\ run = 1
    /\ first_section = None
    /\ Fresh

\* Lines 149-158: read the input, or report and return False.
ReadInput ==
    /\ pc = "read"
    /\ IF input_file.readable
       THEN /\ content' = input_file.text
            /\ pc' = "scan"
            /\ UNCHANGED success
       ELSE /\ success' = FALSE
            /\ pc' = "returned"
            /\ UNCHANGED content
    /\ UNCHANGED <<input_file, output_file, citation_tracker, scan_from, position,
                   cite_keys, key_index, citation_order,
                   bib_entries, bib_bounds, opening_line, new_bib_section, new_content,
                   write_opened, exit_status, run, first_section>>

\* Lines 54-60: re.finditer yields the next marker; its keys are taken apart.
ScanMatch ==
    /\ pc = "scan"
    /\ key_index = Len(cite_keys)
    /\ NextCiteMatch(content, scan_from) # NoMatch
    /\ LET m == NextCiteMatch(content, scan_from)
       IN  /\ position' = CharPos(content, m.start)
           /\ cite_keys' = CiteKeys(m)
           /\ key_index' = 0
           /\ scan_from' = m.end + 1
    /\ UNCHANGED <<input_file, output_file, pc, content, citation_tracker, citation_order,
                   bib_entries, bib_bounds, opening_line, new_bib_section, new_content,
                   write_opened, success, exit_status, run, first_section>>

\* Lines 62-65: one call of tracker.add_citation, for the next key of the
\* marker at hand.
AddNextCitation ==
    /\ pc = "scan"
    /\ key_index < Len(cite_keys)
    /\ citation_tracker' = AddCitation(citation_tracker,
                                       CitationPosition(position, key_index),
                                       cite_keys[key_index + 1])
    /\ key_index' = key_index + 1
    /\ UNCHANGED <<input_file, output_file, pc, content, scan_from, position, cite_keys,
                   citation_order, bib_entries, bib_bounds, opening_line, new_bib_section,
                   new_content, write_opened, success, exit_status, run, first_section>>

\* The end of the scan without the test of lines 167-169.
ScanDoneUnguarded ==
    /\ pc = "scan"
    /\ key_index = Len(cite_keys)
    /\ NextCiteMatch(content, scan_from) = NoMatch
    /\ citation_order' = GetOrderedCitations(citation_tracker)
    /\ pc' = "extract"
    /\ UNCHANGED <<input_file, output_file, content, citation_tracker, scan_from,
                   position, cite_keys, key_index, success,
                   bib_entries, bib_bounds, opening_line, new_bib_section, new_content,
                   write_opened, exit_status, run, first_section>>

\* Lines 67, 167-172: the scan is over; no citation: return False.
ScanDone ==
    /\ pc = "scan"
    /\ key_index = Len(cite_keys)
    /\ NextCiteMatch(content, scan_from) = NoMatch
    /\ IF citation_tracker.citations = <<>>
       THEN /\ success' = FALSE
            /\ pc' = "returned"
            /\ UNCHANGED citation_order
       ELSE /\ citation_order' = GetOrderedCitations(citation_tracker)
            /\ pc' = "extract"
            /\ UNCHANGED success
    /\ UNCHANGED <<input_file, output_file, content, citation_tracker, scan_from,
                   position, cite_keys, key_index,
                   bib_entries, bib_bounds, opening_line, new_bib_section, new_content,
                   write_opened, exit_status, run, first_section>>

\* Lines 179-182: parse the block; a missing delimiter: return False.
ExtractBibliography ==
    /\ pc = "extract"
    /\ LET r == ExtractBibliographyEntries(content)
       IN  IF r.found
           THEN /\ bib_entries' = r.entries
                /\ bib_bounds' = r.bounds
                /\ opening_line' = r.opening_line
                /\ pc' = "reorder"
                /\ UNCHANGED success
           ELSE /\ success' = FALSE
                /\ pc' = "returned"
                /\ UNCHANGED <<bib_entries, bib_bounds, opening_line>>
    /\ UNCHANGED <<input_file, output_file, content, citation_tracker, scan_from,
                   position, cite_keys, key_index,
                   citation_order, new_bib_section, new_content, write_opened,
                   exit_status, run, first_section>>

\* Lines 193-201: build the new block and splice it in; None: return False.
ReorderBibliography ==
    /\ pc = "reorder"
    /\ LET section == CreateReorderedBibliography(citation_order, bib_entries, opening_line)
       IN  IF section = None
           THEN /\ success' = FALSE
                /\ pc' = "returned"
                /\ UNCHANGED <<new_bib_section, new_content>>
           ELSE /\ new_bib_section' = section
                /\ new_content' = Splice(content, bib_bounds, section)
                /\ pc' = "write"
                /\ UNCHANGED success
    /\ UNCHANGED <<input_file, output_file, content, citation_tracker, scan_from,
                   position, cite_keys, key_index,
                   citation_order, bib_entries, bib_bounds, opening_line, write_opened,
                   exit_status, run, first_section>>

\* Lines 207-213, 222: write the output; an exception: return False.  A
\* failed write leaves the path as it was or holds a truncated file.
WriteOutput ==
    /\ pc = "write"
    /\ write_opened' = TRUE
    /\ \/ /\ output_file' = [exists |-> TRUE, text |-> new_content]
          /\ success' = TRUE
       \/ /\ output_file' \in {output_file, [exists |-> TRUE, text |-> <<>>]}
          /\ success' = FALSE
    /\ pc' = "returned"
    /\ UNCHANGED <<input_file, content, citation_tracker, scan_from, position,
                   cite_keys, key_index, citation_order,
                   bib_entries, bib_bounds, opening_line, new_bib_section, new_content,
                   exit_status, run, first_section>>

\* Lines 250-256 of main: sys.exit(1) on failure, status 0 otherwise.
MainExit ==
    /\ pc = "returned"
    /\ exit_status' = IF success THEN 0 ELSE 1
    /\ pc' = "exited"
    /\ UNCHANGED <<input_file, output_file, content, citation_tracker, scan_from,
                   position, cite_keys, key_index,
                   citation_order, bib_entries, bib_bounds, opening_line, new_bib_section,
                   new_content, write_opened, success, run, first_section>>

\* The tool is invoked again, on the file the first invocation wrote.
RunAgain ==
    /\ pc = "exited"
    /\ run = 1
    /\ exit_status = 0
    /\ run' = 2
    /\ first_section' = new_bib_section
    /\ input_file' = [readable |-> TRUE, text |-> output_file.text]
    /\ output_file' = NoFile
    /\ pc' = "read"
    /\ content' = <<>>
    /\ citation_tracker' = NewTracker
    /\ scan_from' = 1
    /\ position' = 0
    /\ cite_keys' = <<>>
    /\ key_index' = 0
    /\ citation_order' = <<>>
    /\ bib_entries' = <<>>
    /\ bib_bounds' = <<0, 0>>
    /\ opening_line' = None
    /\ new_bib_section' = None
    /\ new_content' = <<>>
    /\ write_opened' = FALSE
    /\ success' = FALSE
    /\ exit_status' = -1

Next ==
    \/ ReadInput
    \/ ScanMatch
    \/ AddNextCitation
    \/ ScanDone
    \/ ExtractBibliography
    \/ ReorderBibliography
    \/ WriteOutput
    \/ MainExit
    \/ RunAgain

Spec == Init /\ [][Next]_vars


(***************************************************************************)
(* Vocabulary of the properties                                            *)
(***************************************************************************)
Range(q) == {q[i] : i \in 1..Len(q)}
NoRepeat(q) == \A i, j \in 1..Len(q) : q[i] = q[j] => i = j

RECURSIVE SeqToBag(_)
SeqToBag(q) == IF q = <<>> THEN EmptyBag ELSE SeqToBag(Tail(q)) (+) SetToBag({Head(q)})

\* The invocation has produced its new document (it is about to write it, or
\* has tried to).
Reordered == pc \in {"write", "returned", "exited"} /\ new_bib_section # None

RECURSIVE CiteMatches(_, _)
\* Every citation marker of s from index from on, left to right.
CiteMatches(s, from) ==
    LET m == NextCiteMatch(s, from)
    IN  IF m = NoMatch THEN <<>> ELSE <<m>> \o CiteMatches(s, m.end + 1)

\* The occurrences of keys that the scan has come by so far: start of the
\* marker in characters, index of the key in the marker's comma-separated
\* group, key.  Of the marker at hand only the keys already added count.
Occurrences ==
    LET ms == SelectSeq(CiteMatches(content, 1), LAMBDA m : m.start < scan_from)
    IN  UNION {LET ks == Split(ms[n].group, ",")
               IN  {[pos |-> CharPos(content, ms[n].start), idx |-> i - 1, key |-> Strip(ks[i])] :
                       i \in 1..(IF n = Len(ms) THEN key_index ELSE Len(ks))} : n \in 1..Len(ms)}

\* (position, index) of o1 comes strictly before that of o2.
Before(o1, o2) == o1.pos < o2.pos \/ (o1.pos = o2.pos /\ o1.idx < o2.idx)

\* The first occurrence of key k among the occurrences occ: the least index
\* in the earliest marker.
FirstOccurrence(occ, k) ==
    LET mine == {o \in occ : o.key = k}
        p    == Min({o.pos : o \in mine})
        i    == Min({o.idx : o \in {x \in mine : x.pos = p}})
    IN  [pos |-> p, idx |-> i, key |-> k]

\* C2: get_ordered_citations returns every key seen exactly once, in strictly
\* ascending order of first occurrence, compared by (start of the citing
\* marker, index of the key within the marker); no two distinct keys are
\* stored with the same position value.
C2_OrderPreservation ==
    LET ord   == GetOrderedCitations(citation_tracker)
        cit   == citation_tracker.citations
        occ   == Occurrences
        first == [i \in 1..Len(ord) |-> FirstOccurrence(occ, ord[i])]
    IN  /\ Range(ord) = {o.key : o \in occ}
        /\ NoRepeat(ord)
        /\ \A i, j \in 1..Len(ord) : i < j => Before(first[i], first[j])
        /\ \A i, j \in 1..Len(cit) : i # j => cit[i].val # cit[j].val
        /\ pc \in {"extract", "reorder", "write"} => citation_order = ord

\* The scan is over with three keys or more; one marker held two different
\* keys, one of them at index 2 or later; a key first seen at an index of a
\* thousand or more, where its offset is a whole character or more, is
\* followed by a key of a later marker.
C2_Witness ==
    /\ pc = "extract"
    /\ Len(citation_order) >= 3
    /\ LET occ == Occurrences
           late == {o \in occ : o.idx >= OffsetDenominator}
       IN  /\ late # {}
           /\ \E o1 \in late : \E o2 \in occ :
                 /\ o1.pos < o2.pos
                 /\ FirstOccurrence(occ, o1.key) = o1
                 /\ FirstOccurrence(occ, o2.key) = o2
           /\ \E o1 \in late : \E o2 \in occ : o1.pos = o2.pos /\ o2.idx = 0 /\ o1.key # o2.key

\* The positions at which key k was observed.
Observed(k) ==
    {citation_tracker.citation_positions[i][1] :
        i \in {j \in 1..Len(citation_tracker.citation_positions) :
                  citation_tracker.citation_positions[j][2] = k}}

\* C3: after any number of add_citation calls of the scan, every key observed
\* is in the resolved order exactly once and the position stored for it is
\* the least position at which it was observed.
C3_Deduplication ==
    LET ord == GetOrderedCitations(citation_tracker)
        cit == citation_tracker.citations
        seen == {citation_tracker.citation_positions[i][2] :
                    i \in 1..Len(citation_tracker.citation_positions)}
    IN  /\ \A k \in seen : Cardinality({i \in 1..Len(ord) : ord[i] = k}) = 1
        /\ \A k \in seen : HasKey(cit, k) /\ Lookup(cit, k) = Min(Observed(k))
        /\ Range(ord) = seen

\* A key has been observed at three positions or more, in several markers
\* and twice inside one marker.
C3_Witness ==
    /\ pc = "extract"
    /\ \E k \in Range(citation_order) :
          /\ Cardinality(Observed(k)) >= 3
          /\ \E p, q \in Observed(k) : p # q /\ p \div OffsetDenominator = q \div OffsetDenominator
          /\ \E p, q \in Observed(k) : p \div OffsetDenominator # q \div OffsetDenominator


\* The entries of a block, as (key, text) pairs in the order they stand in
\* it, read behind its opening line.
EntriesOf(section, opening) ==
    LET ms == BibitemMatches(SubSeq(section, Len(opening) + 1, Len(section)), 1)
    IN  [i \in 1..Len(ms) |-> <<Strip(ms[i].group[1]), Strip(ms[i].group[2])>>]

BlockStart == Min({i \in 1..Len(content) : content[i] = BEGIN})
BlockEnd   == Min({i \in BlockStart..Len(content) : content[i] = END})

\* C6: the output is the input up to the block, the new block, and the input
\* behind the block's end-marker: everything outside the block is unchanged
\* and in place.
C6_NonBibliographyInvariance ==
    Reordered =>
        /\ new_content = SubSeq(content, 1, BlockStart - 1) \o new_bib_section
                           \o SubSeq(content, BlockEnd + 1, Len(content))
        /\ \A i \in 1..(BlockStart - 1) : new_content[i] = content[i]
        /\ \A i \in (BlockEnd + 1)..Len(content) :
              new_content[Len(new_content) - (Len(content) - i)] = content[i]
        /\ pc # "write" /\ success => output_file.text = new_content

\* A document with text (and a citation) before and behind its block, and a
\* second block behind the first, has been rewritten.
C6_Witness ==
    /\ Reordered /\ success
    /\ BlockStart > 1
    /\ \E i, j \in (BlockEnd + 1)..Len(content) : content[i] = BEGIN /\ content[j] = END
    /\ new_bib_section # SubSeq(content, BlockStart, BlockEnd)

\* The document has a citation marker and both delimiters, and no \bibitem
\* entry between them.
EmptyBlockCase ==
    /\ pc \in {"returned", "exited"}
    /\ input_file.readable
    /\ NextCiteMatch(content, 1) # NoMatch
    /\ \E i \in 1..Len(content) : content[i] = BEGIN
    /\ \E i \in 1..Len(content) : content[i] = END
    /\ BibitemMatches(BibSection(content), 1) = <<>>

FatalCause ==
    \/ ~input_file.readable
    \/ NextCiteMatch(input_file.text, 1) = NoMatch
    \/ \A i \in 1..Len(input_file.text) : input_file.text[i] # BEGIN
    \/ \A i \in 1..Len(input_file.text) : input_file.text[i] # END

\* C8: the output is opened for writing only when the input was read, the
\* scan found a citation and both delimiters were found; a run with a fatal
\* cause never writes, returns False and exits with status 1; a run that
\* returns True has written the new document and exits with status 0.
C8_NoOutputOnFatalFailure ==
    /\ write_opened =>
          /\ input_file.readable /\ content = input_file.text
          /\ citation_tracker.citations # <<>>
          /\ BibStartMatch(content) # 0 /\ BibEndMatch(content) # 0
          /\ pc \in {"returned", "exited"}
    /\ FatalCause => /\ ~write_opened
                     /\ output_file = NoFile
                     /\ ~success
                     /\ pc # "write"
    /\ pc = "exited" => exit_status = (IF success THEN 0 ELSE 1)
    /\ pc # "exited" => exit_status = -1
    /\ success => write_opened /\ output_file = [exists |-> TRUE, text |-> new_content]

\* A run that read its input and found a citation and the begin-marker, but
\* no end-marker, has exited with status 1.
C8_Witness ==
    /\ pc = "exited"
    /\ exit_status = 1
    /\ input_file.readable
    /\ citation_tracker.citations # <<>>
    /\ BibStartMatch(content) # 0
    /\ BibEndMatch(content) = 0


\* The keys of the \bibitem entries of a block, in the order they stand in it.
KeysOf(section) ==
    LET ms == BibitemMatches(section, 1)
    IN  [i \in 1..Len(ms) |-> Strip(ms[i].group[1])]

\* C1 as stated: the multiset of \bibitem keys of the output block is the
\* multiset of \bibitem keys of the input block, also when the input declares
\* a key more than once.
C1_SetClosure ==
    Reordered => SeqToBag(KeysOf(new_bib_section)) = SeqToBag(KeysOf(BibSection(content)))

\* C5 as stated: the block produced by a second run, on the output of the
\* first, is the block the first run produced, also when entry bodies cite.
C5_Idempotence ==
    (run = 2 /\ Reordered) => new_bib_section = first_section

\* The text of a block between its opening line and its first \bibitem.
Preamble(section) ==
    LET ms == BibitemMatches(section, 1)
        from == Len(OpeningLine(section)) + 1
    IN  IF ms = <<>> THEN <<>> ELSE SubSeq(section, from, Max({from, ms[1].start}) - 1)

\* The entries of a block as written: key and body, character for character.
RawEntries(section) ==
    LET ms == BibitemMatches(section, 1)
    IN  [i \in 1..Len(ms) |-> ms[i].group]

\* C9 as stated: the output is the input with the entries of the block in
\* another order and nothing else changed: the opening line, the text before
\* the first entry and every entry's body are carried over, the text outside
\* the block is untouched, and a block already in citation order, without
\* duplicate or uncited keys, gives back the input.
C9_OnlyEntryOrderChanges ==
    Reordered =>
        LET old == SubSeq(content, BlockStart, BlockEnd)
        IN  /\ SubSeq(new_content, 1, BlockStart - 1) = SubSeq(content, 1, BlockStart - 1)
            /\ OpeningLine(new_bib_section) = OpeningLine(old)
            /\ Preamble(new_bib_section) = Preamble(old)
            /\ SeqToBag(RawEntries(new_bib_section)) = SeqToBag(RawEntries(old))
            /\ (NoRepeat(KeysOf(old)) /\ KeysOf(old) = citation_order) => new_content = content

\* A line of blanks only.
IsBlankLine(line) == \A i \in 1..Len(line) : IsSpace(line[i])

RECURSIVE CollapseRuns(_)
\* The lines with every run of two or more blank lines replaced by one empty
\* line; a blank line alone between two lines of text is kept.
CollapseRuns(lines) ==
    IF lines = <<>> THEN <<>>
    ELSE IF Len(lines) >= 2 /\ IsBlankLine(lines[1]) /\ IsBlankLine(lines[2])
         THEN LET rest == CollapseRuns(Tail(lines))
              IN  <<<<>>>> \o Tail(rest)
         ELSE <<Head(lines)>> \o CollapseRuns(Tail(lines))

\* The normalization the specification describes: trim the body, collapse
\* runs of two or more blank lines to a single blank line.
CollapsedBody(raw) == Join(CollapseRuns(Split(Strip(raw), NL)), <<NL>>)

\* C10 as stated: the text stored for an entry is its body trimmed, with each
\* run of two or more blank lines replaced by a single blank line, a single
\* blank line kept and nothing else changed.
C10_BodyNormalization ==
    (pc = "reorder") =>
        LET ms == BibitemMatches(BibSection(content), 1)
        IN  \A i \in 1..Len(ms) :
                (\A j \in (i + 1)..Len(ms) : Strip(ms[j].group[1]) # Strip(ms[i].group[1]))
                    => Lookup(bib_entries, Strip(ms[i].group[1])) = CollapsedBody(ms[i].group[2])

=============================================================================
